---- MODULE Spec2Model ----
(***************************************************************************)
(* A model of the p2p node of libp2p-experiments (src/bin/p2p/src/main.rs  *)
(* and config.rs): identity file handling, configuration loading, the two  *)
(* listeners, the seeding of the Kademlia routing table from the bootstrap *)
(* list, the DHT bootstrap call and the swarm event loop.                  *)
(*                                                                         *)
(* Values of the libp2p crates are modelled at the interface main.rs uses: *)
(* an Option is <<>> (None) or <<v>> (Some(v)); a Result is a record       *)
(* [ok, val, err].                                                         *)
(***************************************************************************)
EXTENDS Integers, Sequences, FiniteSets, TLC

\* ------------------------------------------------------------------ bounds
\* longest bootstrap_peers list a configuration file gives
MaxPeers == 3
\* capacity of a k-bucket (libp2p's K_VALUE is 20; scaled down)
K_VALUE == 2
\* width of a Kademlia key in bits (256 in libp2p; scaled down)
KeyBits == 3
\* length of an ed25519 secret key in bytes (32 in libp2p; scaled down)
SecretLen == 2
\* number of swarm events a run of the node receives
MaxEvents == 2

\* largest value of the u16 port option
U16_MAX == 65535

None == <<>>
Some(v) == <<v>>
IsSome(o) == o # <<>>
Unwrap(o) == o[1]

Ok(v) == [ok |-> TRUE, val |-> <<v>>, err |-> ""]
Err(e) == [ok |-> FALSE, val |-> <<>>, err |-> e]

\* ---------------------------------------------------------- multiaddresses
\* A Multiaddr is a sequence of protocol components.
Proto(p, v) == [proto |-> p, val |-> v]

\* The address strings a configuration file may hold.
AddrStrings ==
    { "/ip4/10.0.0.2/tcp/4001/p2p/Peer2",
      "/ip4/10.0.0.2/udp/4001/quic-v1/p2p/Peer2",
      "/ip4/10.0.0.4/tcp/4001/p2p/Peer4",
      "/ip4/10.0.0.5/tcp/4001/p2p/Peer5",
      "/ip4/10.0.0.9/tcp/4001",
      "not-a-multiaddr" }

\* str::parse::<Multiaddr>(): None when the string is no multiaddress
ParseMultiaddr(s) ==
    CASE s = "/ip4/10.0.0.2/tcp/4001/p2p/Peer2" ->
            Some(<<Proto("ip4", 2), Proto("tcp", 4001), Proto("p2p", 2)>>)
      [] s = "/ip4/10.0.0.2/udp/4001/quic-v1/p2p/Peer2" ->
            Some(<<Proto("ip4", 2), Proto("udp", 4001), Proto("quic-v1", 0), Proto("p2p", 2)>>)
      [] s = "/ip4/10.0.0.4/tcp/4001/p2p/Peer4" ->
            Some(<<Proto("ip4", 4), Proto("tcp", 4001), Proto("p2p", 4)>>)
      [] s = "/ip4/10.0.0.5/tcp/4001/p2p/Peer5" ->
            Some(<<Proto("ip4", 5), Proto("tcp", 4001), Proto("p2p", 5)>>)
      [] s = "/ip4/10.0.0.9/tcp/4001" ->
            Some(<<Proto("ip4", 9), Proto("tcp", 4001)>>)
      [] OTHER -> None

\* ------------------------------------------------------------ config.rs
\* default_bootstrap_peers(): four dnsaddr entries and two addresses of one
\* further peer
default_bootstrap_peers ==
    << <<Proto("dnsaddr", 0), Proto("p2p", 1)>>,
       <<Proto("dnsaddr", 0), Proto("p2p", 3)>>,
       <<Proto("dnsaddr", 0), Proto("p2p", 6)>>,
       <<Proto("dnsaddr", 0), Proto("p2p", 7)>>,
       <<Proto("ip4", 104), Proto("tcp", 4001), Proto("p2p", 4)>>,
       <<Proto("ip4", 104), Proto("udp", 4001), Proto("quic", 0), Proto("p2p", 4)>> >>

default_topic == "example-topic"

\* impl Default for Config
ConfigDefault == [bootstrap_peers |-> default_bootstrap_peers, topic |-> default_topic]

\* peers.into_iter().filter_map(|p| p.parse::<Multiaddr>().ok()).collect()
RECURSIVE FilterMapParse(_)
FilterMapParse(peers) ==
    IF peers = <<>> THEN <<>>
    ELSE ParseMultiaddr(Head(peers)) \o FilterMapParse(Tail(peers))

\* a From<ConfigYaml> that falls back to the defaults when no entry parses
ConfigFromYaml_DefaultWhenEmpty(yaml) ==
    [bootstrap_peers |->
        IF IsSome(yaml.bootstrap_peers) /\ FilterMapParse(Unwrap(yaml.bootstrap_peers)) # <<>>
        THEN FilterMapParse(Unwrap(yaml.bootstrap_peers))
        ELSE default_bootstrap_peers,
     topic |-> IF IsSome(yaml.topic) THEN Unwrap(yaml.topic) ELSE default_topic]

\* impl From<ConfigYaml> for Config
ConfigFromYaml(yaml) ==
    [bootstrap_peers |->
        IF IsSome(yaml.bootstrap_peers)
        THEN FilterMapParse(Unwrap(yaml.bootstrap_peers))
        ELSE default_bootstrap_peers,
     topic |-> IF IsSome(yaml.topic) THEN Unwrap(yaml.topic) ELSE default_topic]

\* The states of the configuration file: missing, present but not readable
\* or not YAML, or a ConfigYaml document whose two fields are each optional.
RECURSIVE SeqsUpTo(_, _)
SeqsUpTo(S, n) ==
    IF n = 0 THEN {<<>>}
    ELSE LET shorter == SeqsUpTo(S, n - 1)
         IN  shorter \cup {Append(q, x) : q \in shorter, x \in S}

YamlDocs ==
    [bootstrap_peers : {None} \cup {Some(l) : l \in SeqsUpTo(AddrStrings, MaxPeers)},
     topic : {None, Some("news")}]

ConfigFiles ==
    { [kind |-> "missing", yaml |-> None], [kind |-> "invalid", yaml |-> None] }
      \cup { [kind |-> "yaml", yaml |-> Some(y)] : y \in YamlDocs }

\* Config::from_file
from_file(file) ==
    IF file.kind = "missing" THEN Ok(ConfigDefault)
    ELSE IF file.kind = "invalid" THEN Err("Failed to parse YAML config")
    ELSE Ok(ConfigFromYaml(Unwrap(file.yaml)))

\* ----------------------------------------------------- identity (main.rs)
\* A Keypair is [secret, public]; the public key is a function of the secret.
PublicOf(secret) == [i \in 1..Len(secret) |-> (secret[i] * 3 + 1) % 256]

KeypairOf(secret) == [secret |-> secret, public |-> PublicOf(secret)]

\* the secrets identity::Keypair::generate_ed25519() may draw
Secrets == { [i \in 1..SecretLen |-> b] : b \in {5, 3} }

\* Keypair::to_protobuf_encoding(): the PrivateKey message, field 1 the key
\* type (Ed25519 = 1), field 2 the key data, secret followed by public
to_protobuf_encoding(keypair) ==
    <<8, 1, 18, Len(keypair.secret) + Len(keypair.public)>>
        \o keypair.secret \o keypair.public

\* Keypair::ed25519_from_bytes(): the bytes of an ed25519 secret key, which
\* has exactly SecretLen bytes
ed25519_from_bytes(bytes) ==
    IF Len(bytes) = SecretLen THEN Ok(KeypairOf(bytes))
    ELSE Err("Failed to parse identity keypair from bytes")

\* hex::encode: two hexadecimal digits a byte, high digit first
hex_encode(bytes) ==
    [i \in 1..(2 * Len(bytes)) |->
        IF i % 2 = 1 THEN bytes[(i + 1) \div 2] \div 16 ELSE bytes[i \div 2] % 16]

\* hex::decode: fails on an odd number of digits
hex_decode(digits) ==
    IF Len(digits) % 2 = 1 THEN Err("Failed to decode identity from hex")
    ELSE Ok([i \in 1..(Len(digits) \div 2) |-> digits[2 * i - 1] * 16 + digits[2 * i]])

\* load_or_create_identity: `file` is the content of the identity file (None
\* when it does not exist), `secret` the key generate_ed25519() would draw.
\* The result is the returned Result and the file afterwards. The file holds
\* hex digits only, so String::from_utf8 succeeds; failures of the file
\* system itself are left out.
load_or_create_identity(file, secret) ==
    IF IsSome(file)
    THEN LET decoded == hex_decode(Unwrap(file))
         IN  [result |-> IF decoded.ok THEN ed25519_from_bytes(Unwrap(decoded.val))
                         ELSE decoded,
              file |-> file]
    ELSE LET keypair == KeypairOf(secret)
             hex_encoded == hex_encode(to_protobuf_encoding(keypair))
         IN  [result |-> Ok(keypair), file |-> Some(hex_encoded)]

\* PeerId::from(local_key.public()): a digest of the public key
PeerIdOf(public) == public[1] % (2 ^ KeyBits)

\* ------------------------------------------------- Kademlia routing table
\* the key of a peer in the XOR key space: a digest of its PeerId
KeyOf(peer) == (5 * peer + 3) % (2 ^ KeyBits)

RECURSIVE Xor(_, _)
Xor(a, b) ==
    IF a = 0 /\ b = 0 THEN 0
    ELSE (((a % 2) + (b % 2)) % 2) + 2 * Xor(a \div 2, b \div 2)

RECURSIVE Log2(_)
Log2(d) == IF d <= 1 THEN 0 ELSE 1 + Log2(d \div 2)

\* the bucket of a key at distance d > 0 from the local key
BucketIndex(d) == Log2(d)

\* kad::Behaviour::with_config(local_peer_id, ..): a table of empty buckets
NewTable == [b \in 0..(KeyBits - 1) |-> <<>>]

PositionOf(bucket, peer) ==
    LET hits == {i \in 1..Len(bucket) : bucket[i].peer = peer}
    IN  IF hits = {} THEN 0 ELSE CHOOSE i \in hits : TRUE

\* an add_address that inserts without looking at the bucket's capacity
add_address_Unbounded(table, local, peer, addr) ==
    LET d == Xor(KeyOf(local), KeyOf(peer))
        b == BucketIndex(d)
        pos == PositionOf(table[b], peer)
    IN  IF d = 0 THEN table
        ELSE IF pos # 0
        THEN [table EXCEPT ![b][pos].addrs =
                 IF \E i \in 1..Len(@) : @[i] = addr THEN @ ELSE Append(@, addr)]
        ELSE [table EXCEPT ![b] = Append(@, [peer |-> peer, addrs |-> <<addr>>])]

\* kad::Behaviour::add_address(&peer_id, address): the local key has no
\* bucket; a known peer gains the address; an unknown peer is inserted
\* (not connected) when its bucket has room and is dropped when it is full
add_address(table, local, peer, addr) ==
    LET d == Xor(KeyOf(local), KeyOf(peer))
        b == BucketIndex(d)
        pos == PositionOf(table[b], peer)
    IN  IF d = 0 THEN table
        ELSE IF pos # 0
        THEN [table EXCEPT ![b][pos].addrs =
                 IF \E i \in 1..Len(@) : @[i] = addr THEN @ ELSE Append(@, addr)]
        ELSE IF Len(table[b]) < K_VALUE
        THEN [table EXCEPT ![b] = Append(@, [peer |-> peer, addrs |-> <<addr>>])]
        ELSE table

\* peer.iter().find_map(|proto| if let Protocol::P2p(id) = proto ..)
FindP2p(addr) ==
    LET hits == {i \in 1..Len(addr) : addr[i].proto = "p2p"}
    IN  IF hits = {} THEN None
        ELSE Some(addr[CHOOSE i \in hits : \A j \in hits : i <= j].val)

TableIsEmpty(table) == \A b \in DOMAIN table : table[b] = <<>>

\* ------------------------------------------------------------------ state
VARIABLES
    pc,            \* where main() is
    port,          \* cli.port
    configFile,    \* the configuration file on disk
    identityFile,  \* the identity file on disk: None or its hex digits
    local_key,     \* Option of the node's keypair
    cfg,           \* Option of the loaded Config
    listeners,     \* the addresses the swarm listens on
    dials,         \* per bootstrap address dialed so far, the state of its peer
    rt,            \* the Kademlia routing table
    queries,       \* the bootstrap queries (self-lookups) started
    events,        \* swarm events not yet yielded by swarm.next()
    taken,         \* the events swarm.next() has yielded
    out,           \* the lines printed by the event loop
    exitErr        \* the error main() returned, "" while it has returned none

vars == <<pc, port, configFile, identityFile, local_key, cfg, listeners, dials,
          rt, queries, events, taken, out, exitErr>>

\* the values of the port option: the default and the largest
Ports == {30333, U16_MAX}

local_peer_id == PeerIdOf(Unwrap(local_key).public)

Init ==
    /\ pc = "LoadIdentity"
    /\ port \in Ports
    /\ configFile \in ConfigFiles
    /\ identityFile = None
    /\ local_key = None
    /\ cfg = None
    /\ listeners = <<>>
    /\ dials = <<>>
    /\ rt = NewTable
    /\ queries = 0
    /\ events = <<>>
    /\ taken = <<>>
    /\ out = <<>>
    /\ exitErr = ""

\* main() returns Err(e)
Exit(e) == pc' = "Exited" /\ exitErr' = e

\* main.rs 84-87
LoadIdentity ==
    /\ pc = "LoadIdentity"
    /\ \E secret \in Secrets :
         LET r == load_or_create_identity(identityFile, secret)
         IN  /\ identityFile' = r.file
             /\ IF r.result.ok
                THEN /\ local_key' = r.result.val
                     /\ pc' = "LoadConfig"
                     /\ exitErr' = exitErr
                ELSE /\ local_key' = local_key
                     /\ Exit(r.result.err)
    /\ UNCHANGED <<port, configFile, cfg, listeners, dials, rt, queries, events, taken, out>>

\* main.rs 89-93
LoadConfig ==
    /\ pc = "LoadConfig"
    /\ LET r == from_file(configFile)
       IN  IF r.ok
           THEN cfg' = r.val /\ pc' = "BuildSwarm" /\ exitErr' = exitErr
           ELSE cfg' = cfg /\ Exit(r.err)
    /\ UNCHANGED <<port, configFile, identityFile, local_key, listeners, dials, rt,
                   queries, events, taken, out>>

\* main.rs 95-115
BuildSwarm ==
    /\ pc = "BuildSwarm"
    /\ rt' = NewTable
    /\ pc' = "ListenTcp"
    /\ UNCHANGED <<port, configFile, identityFile, local_key, cfg, listeners, dials,
                   queries, events, taken, out, exitErr>>

\* main.rs 117-121: listen_on may fail (the port is taken)
ListenTcp ==
    /\ pc = "ListenTcp"
    /\ \E bound \in BOOLEAN :
         IF bound
         THEN /\ listeners' = Append(listeners, <<Proto("ip4", 0), Proto("tcp", port)>>)
              /\ pc' = "ListenQuic"
              /\ exitErr' = exitErr
         ELSE listeners' = listeners /\ Exit("Failed to listen on TCP port")
    /\ UNCHANGED <<port, configFile, identityFile, local_key, cfg, dials, rt, queries,
                   events, taken, out>>

\* cli.port + 1 on u16 where the build wraps on overflow
QuicPort(p) == (p + 1) % (U16_MAX + 1)

\* main.rs 123-127: cli.port + 1 overflows u16 for the largest port; a build
\* with overflow checks panics there, a build without them wraps
ListenQuic ==
    /\ pc = "ListenQuic"
    /\ \E overflow_checks \in BOOLEAN, bound \in BOOLEAN :
         IF port + 1 > U16_MAX /\ overflow_checks
         THEN /\ pc' = "Panicked"
              /\ UNCHANGED <<listeners, exitErr>>
         ELSE IF bound
         THEN /\ listeners' = Append(listeners,
                    <<Proto("ip4", 0), Proto("udp", QuicPort(port)), Proto("quic-v1", 0)>>)
              /\ pc' = "Seed"
              /\ exitErr' = exitErr
         ELSE listeners' = listeners /\ Exit("Failed to listen on QUIC port")
    /\ UNCHANGED <<port, configFile, identityFile, local_key, cfg, dials, rt, queries,
                   events, taken, out>>

\* main.rs 136-145: the address is added to the DHT when it names a peer
SeedAddress(table, local, addr) ==
    LET id == FindP2p(addr)
    IN  IF IsSome(id) THEN add_address(table, local, Unwrap(id), addr) ELSE table

\* main.rs 129-146, one iteration of the loop over cfg.bootstrap_peers:
\* swarm.dial() returns Ok (the dial is under way) or Err (logged), and the
\* address is seeded either way
SeedNext ==
    /\ pc = "Seed"
    /\ Len(dials) < Len(Unwrap(cfg).bootstrap_peers)
    /\ LET peer == Unwrap(cfg).bootstrap_peers[Len(dials) + 1]
       IN  /\ \E dialed \in BOOLEAN :
                dials' = Append(dials, IF dialed THEN "Dialing" ELSE "Idle")
           /\ rt' = SeedAddress(rt, local_peer_id, peer)
    /\ UNCHANGED <<pc, port, configFile, identityFile, local_key, cfg, listeners,
                   queries, events, taken, out, exitErr>>

\* a loop that is left after its first iteration
SeedingDone_AfterFirst == Len(dials) >= 1 \/ Unwrap(cfg).bootstrap_peers = <<>>

\* main.rs 130: the for loop has run over every bootstrap peer
SeedingDone == Len(dials) = Len(Unwrap(cfg).bootstrap_peers)

\* main.rs 148-149: kad bootstrap() starts the self-lookup, or returns
\* Err(NoKnownPeers) when the routing table holds no peer; the ? makes main
\* return that error
Bootstrap ==
    /\ pc = "Seed"
    /\ SeedingDone
    /\ IF TableIsEmpty(rt)
       THEN queries' = queries /\ Exit("NoKnownPeers")
       ELSE queries' = queries + 1 /\ pc' = "Loop" /\ exitErr' = exitErr
    /\ UNCHANGED <<port, configFile, identityFile, local_key, cfg, listeners, dials,
                   rt, events, taken, out>>

\* ------------------------------------------------------------- event loop
Event(t, a) == [type |-> t, arg |-> a]

\* the swarm has room to report one more event in this run
MayNotify == pc = "Loop" /\ Len(taken) + Len(events) < MaxEvents

\* a dial under way completes: ConnectionEstablished
DialSucceeds ==
    /\ MayNotify
    /\ \E i \in 1..Len(dials) :
         /\ dials[i] = "Dialing"
         /\ dials' = [dials EXCEPT ![i] = "Connected"]
         /\ events' = Append(events, Event("ConnectionEstablished", i))
    /\ UNCHANGED <<pc, port, configFile, identityFile, local_key, cfg, listeners, rt,
                   queries, taken, out, exitErr>>

\* a dial under way fails or times out: OutgoingConnectionError, and the
\* peer is idle again
DialFails ==
    /\ MayNotify
    /\ \E i \in 1..Len(dials) :
         /\ dials[i] = "Dialing"
         /\ dials' = [dials EXCEPT ![i] = "Idle"]
         /\ events' = Append(events, Event("OutgoingConnectionError", i))
    /\ UNCHANGED <<pc, port, configFile, identityFile, local_key, cfg, listeners, rt,
                   queries, taken, out, exitErr>>

\* an established connection closes: ConnectionClosed
ConnectionCloses ==
    /\ MayNotify
    /\ \E i \in 1..Len(dials) :
         /\ dials[i] = "Connected"
         /\ dials' = [dials EXCEPT ![i] = "Closed"]
         /\ events' = Append(events, Event("ConnectionClosed", i))
    /\ UNCHANGED <<pc, port, configFile, identityFile, local_key, cfg, listeners, rt,
                   queries, taken, out, exitErr>>

\* a remote peer connects to a listener: IncomingConnection
IncomingConnection ==
    /\ MayNotify
    /\ events' = Append(events, Event("IncomingConnection", 0))
    /\ UNCHANGED <<pc, port, configFile, identityFile, local_key, cfg, listeners,
                   dials, rt, queries, taken, out, exitErr>>

\* the Kademlia behaviour reports: RoutingUpdated, InboundRequest, or the
\* progress of the bootstrap query
KadNotifies ==
    /\ MayNotify
    /\ \E t \in {"RoutingUpdated", "InboundRequest", "OutboundQueryProgressed"} :
         events' = Append(events, Event(t, 0))
    /\ UNCHANGED <<pc, port, configFile, identityFile, local_key, cfg, listeners,
                   dials, rt, queries, taken, out, exitErr>>

\* a handler whose work for an established connection is put off and not
\* finished when the loop takes its next event
Handle_Deferred(event, printed) ==
    IF event.type = "ConnectionEstablished" THEN printed
    ELSE Append(printed, [text |-> "Swarm event", arg |-> event.arg])

\* main.rs 154-185: the match on the event; every arm prints one line
Handle(event, printed) ==
    Append(printed,
      [text |-> CASE event.type = "RoutingUpdated" -> "DHT: Routing updated for peer"
                  [] event.type = "InboundRequest" -> "DHT: Inbound request"
                  [] event.type = "IncomingConnection" -> "Incoming connection on"
                  [] event.type = "ConnectionEstablished" -> "Connection established with"
                  [] event.type = "ConnectionClosed" -> "Connection closed with"
                  [] event.type = "OutboundQueryProgressed" -> "DHT event"
                  [] OTHER -> "Swarm event",
       arg |-> event.arg])

\* main.rs 153-186, one turn of the loop: swarm.next() yields the oldest
\* event and its match arm runs to its end
EventLoop ==
    /\ pc = "Loop"
    /\ events # <<>>
    /\ taken' = Append(taken, Head(events))
    /\ events' = Tail(events)
    /\ out' = Handle(Head(events), out)
    /\ UNCHANGED <<pc, port, configFile, identityFile, local_key, cfg, listeners,
                   dials, rt, queries, exitErr>>

\* the process has ended (main returned, panicked, or was stopped in its
\* event loop) and the node is started again over the same files
Restart ==
    /\ pc \in {"Exited", "Panicked", "Loop"}
    /\ pc' = "LoadIdentity"
    /\ local_key' = None
    /\ cfg' = None
    /\ listeners' = <<>>
    /\ dials' = <<>>
    /\ rt' = NewTable
    /\ queries' = 0
    /\ events' = <<>>
    /\ taken' = <<>>
    /\ out' = <<>>
    /\ exitErr' = ""
    /\ UNCHANGED <<port, configFile, identityFile>>

Next ==
    \/ LoadIdentity
    \/ LoadConfig
    \/ BuildSwarm
    \/ ListenTcp
    \/ ListenQuic
    \/ SeedNext
    \/ Bootstrap
    \/ DialSucceeds
    \/ DialFails
    \/ ConnectionCloses
    \/ IncomingConnection
    \/ KadNotifies
    \/ EventLoop
    \/ Restart

Spec == Init /\ [][Next]_vars

\* The node from its start to the start of its event loop, over every
\* configuration file: the swarm reports nothing yet.
Startup ==
    \/ LoadIdentity
    \/ LoadConfig
    \/ BuildSwarm
    \/ ListenTcp
    \/ ListenQuic
    \/ SeedNext
    \/ Bootstrap
    \/ Restart

SpecStartup == Init /\ [][Startup]_vars

\* The whole node, started on the default port over a configuration file
\* that is missing or gives at most one bootstrap peer.
InitLoop ==
    /\ Init
    /\ port = 30333
    /\ configFile.kind # "invalid"
    /\ configFile.kind = "yaml" =>
         /\ Unwrap(configFile.yaml).topic = None
         /\ IsSome(Unwrap(configFile.yaml).bootstrap_peers)
         /\ Len(Unwrap(Unwrap(configFile.yaml).bootstrap_peers)) <= 1

SpecLoop == InitLoop /\ [][Next]_vars

\* ------------------------------------------------------------- properties
BootstrapPeers == Unwrap(cfg).bootstrap_peers

\* the routing table holds `addr` in the entry of the peer it names
AddrInTable(addr) ==
    \E b \in DOMAIN rt : \E i \in 1..Len(rt[b]) :
        /\ Some(rt[b][i].peer) = FindP2p(addr)
        /\ \E k \in 1..Len(rt[b][i].addrs) : rt[b][i].addrs[k] = addr

PeerInTable(peer) ==
    \E b \in DOMAIN rt : \E i \in 1..Len(rt[b]) : rt[b][i].peer = peer

\* the bucket of `peer` holds K_VALUE other peers
BucketFullOfOthers(peer) ==
    /\ ~PeerInTable(peer)
    /\ Len(rt[BucketIndex(Xor(KeyOf(local_peer_id), KeyOf(peer)))]) = K_VALUE

C3_NoPeersIsNotFatal == ~(pc = "Exited" /\ exitErr = "NoKnownPeers")

\* an address the routing table can take: its last component, and no other,
\* is /p2p, it names a peer other than the local one, and that peer's bucket
\* is not full of other peers
Seedable(addr) ==
    /\ addr # <<>>
    /\ {i \in 1..Len(addr) : addr[i].proto = "p2p"} = {Len(addr)}
    /\ addr[Len(addr)].val # local_peer_id
    /\ ~BucketFullOfOthers(addr[Len(addr)].val)

\* C4 (as claimed): once the dial of a bootstrap address has failed, the
\* node is still alive, and when the event loop runs every bootstrap address
\* has been dialed and every address the table can take is seeded.
C4_DialFailureNotFatal ==
    (\E i \in 1..Len(dials) : dials[i] = "Idle") =>
        /\ pc \notin {"Exited", "Panicked"}
        /\ pc = "Loop" =>
             /\ Len(dials) = Len(BootstrapPeers)
             /\ \A j \in 1..Len(BootstrapPeers) :
                  Seedable(BootstrapPeers[j]) => AddrInTable(BootstrapPeers[j])

\* C5 (as claimed): when the self-lookup starts, every given bootstrap
\* address is present in the routing table.
C5_AllSeedsPresent ==
    queries > 0 =>
        \A i \in 1..Len(BootstrapPeers) : AddrInTable(BootstrapPeers[i])

\* C5 (amended): the self-lookup starts only after the loop has run over the
\* whole bootstrap list, it starts once, and when it starts every given
\* address that ends in its only /p2p component, naming a peer other than
\* the local one whose bucket is not full of other peers, is present in the
\* routing table.
C5_SeededBeforeLookup ==
    queries > 0 =>
        /\ queries = 1
        /\ Len(dials) = Len(BootstrapPeers)
        /\ \A i \in 1..Len(BootstrapPeers) :
             Seedable(BootstrapPeers[i]) => AddrInTable(BootstrapPeers[i])

\* C5 witness: the self-lookup has started over a list of three addresses of
\* which one names no peer and another is in the table.
C5_LookupAfterMixedList ==
    /\ queries = 1
    /\ Len(BootstrapPeers) = 3
    /\ \E i \in 1..3 : FindP2p(BootstrapPeers[i]) = None
    /\ \E i \in 1..3 : AddrInTable(BootstrapPeers[i])

\* C7: every event swarm.next() has yielded is handled to its end, in the
\* order taken, before the next one is taken: the lines printed so far are
\* exactly one per event taken, in the same order.
C7_OneEventAtATime ==
    /\ Len(out) = Len(taken)
    /\ \A i \in 1..Len(taken) :
         /\ out[i].arg = taken[i].arg
         /\ taken[i].type = "ConnectionClosed" <=> out[i].text = "Connection closed with"
         /\ taken[i].type = "OutgoingConnectionError" <=> out[i].text = "Swarm event"

\* C7 witness: an established connection has been handled to its end while
\* its closing was already pending behind it.
C7_HandledWhileNextPending ==
    /\ Len(taken) = 1
    /\ taken[1].type = "ConnectionEstablished"
    /\ out = <<[text |-> "Connection established with", arg |-> taken[1].arg]>>
    /\ events = <<Event("ConnectionClosed", taken[1].arg)>>

Parses(s) == IsSome(ParseMultiaddr(s))

\* C8: a missing file gives the default Config; a present file gives, field
\* by field, its own value or the default when the field is absent, and a
\* given bootstrap_peers list gives exactly its parsable entries, in order.
C8_FromFileMerges ==
    IsSome(cfg) =>
        /\ configFile.kind # "invalid"
        /\ configFile.kind = "missing" =>
             Unwrap(cfg) = [bootstrap_peers |-> default_bootstrap_peers,
                            topic |-> "example-topic"]
        /\ configFile.kind = "yaml" =>
             LET yaml == Unwrap(configFile.yaml)
             IN  /\ yaml.topic = None => Unwrap(cfg).topic = "example-topic"
                 /\ IsSome(yaml.topic) => Unwrap(cfg).topic = Unwrap(yaml.topic)
                 /\ yaml.bootstrap_peers = None =>
                      Unwrap(cfg).bootstrap_peers = default_bootstrap_peers
                 /\ IsSome(yaml.bootstrap_peers) =>
                      LET given == SelectSeq(Unwrap(yaml.bootstrap_peers), Parses)
                      IN  Unwrap(cfg).bootstrap_peers =
                             [i \in 1..Len(given) |-> Unwrap(ParseMultiaddr(given[i]))]

\* C8 witness: a file that gives only a list of unparsable entries has been
\* loaded, leaving an empty list and the default topic.
C8_OnlyUnparsableGiven ==
    /\ IsSome(cfg)
    /\ configFile.kind = "yaml"
    /\ Unwrap(configFile.yaml).topic = None
    /\ Unwrap(configFile.yaml).bootstrap_peers =
          Some(<<"not-a-multiaddr", "not-a-multiaddr">>)
    /\ Unwrap(cfg).bootstrap_peers = <<>>

\* C9 (as claimed): once the identity file exists, every start that has
\* passed its identity step holds the keypair the file stores.
C9_IdentityRoundTrips ==
    (IsSome(identityFile) /\ pc # "LoadIdentity") =>
        /\ IsSome(local_key)
        /\ hex_encode(to_protobuf_encoding(Unwrap(local_key))) = Unwrap(identityFile)

\* C10 (as claimed): for every port the node does not panic, and its QUIC
\* listener is on UDP port + 1, a port of 1..65535 other than the TCP one.
C10_QuicPortIsPortPlusOne ==
    /\ pc # "Panicked"
    /\ \A i \in 1..Len(listeners) :
         listeners[i][2].proto = "udp" =>
            /\ listeners[i][2].val = port + 1
            /\ listeners[i][2].val \in 1..U16_MAX
            /\ listeners[i][2].val # port

====
